---- MODULE Spec2Model ----
(***************************************************************************)
(* StudyLogix: the relational store behind the study tracker and the       *)
(* managers that read and write it (managers.py, friend_manager.py,        *)
(* pomodoro_manager.py over the schema of database.py).                    *)
(*                                                                         *)
(* A table is the collection of its rows.  study_sessions and study_goals  *)
(* are bags of rows without their AUTOINCREMENT key, which no statement of *)
(* the managers reads; a bag keeps two equal rows apart, so a duplicate    *)
(* row is representable.  friendships and pomodoro_sessions keep their key, *)
(* which the callers pass back as an argument.                             *)
(*                                                                         *)
(* Dates are day numbers; day 0 is a Monday, so date.weekday() is d % 7.   *)
(* An optional argument is a sequence of length at most one: <<>> is       *)
(* Python's None, <<v>> is the value v.                                    *)
(***************************************************************************)
EXTENDS Integers, Sequences, FiniteSets, Bags, TLC

VARIABLES
    users,               \* set of rows [user_id, username, email]
    study_sessions,      \* bag of rows [user_id, subject, duration_minutes, session_date]
    study_goals,         \* bag of rows [user_id, subject, weekly_target_minutes, week_start_date]
    friendships,         \* set of rows [friendship_id, user_id, friend_id, status]
    next_friendship_id,  \* the AUTOINCREMENT sequence of friendships
    pomodoro_sessions,   \* set of rows, in the layout named by pomodoro_layout
    next_pomodoro_id,    \* the key sequence of pomodoro_sessions
    pomodoro_layout,     \* which CREATE TABLE made pomodoro_sessions
    active_timers,       \* bag of rows [user_id, session_id, subject, duration_minutes,
                         \*              time_remaining, is_break]
    pc,                  \* where each request thread is in the operation it runs
    db_lock,             \* the thread holding db_lock of app.py, or 0
    pomodoro_db_lock,    \* the thread holding PomodoroManager.db_lock, or 0
    result               \* what the last operation returned to its caller

vars == <<users, study_sessions, study_goals, friendships, next_friendship_id,
          pomodoro_sessions, next_pomodoro_id, pomodoro_layout, active_timers,
          pc, db_lock, pomodoro_db_lock, result>>

threadVars == <<pc, db_lock, pomodoro_db_lock>>

----------------------------------------------------------------------------
(* Bounds of the model and the small sets the inputs are drawn from. *)

MaxRows == 3             \* rows of study_sessions and study_goals together
MaxFriendshipId == 3     \* friendship requests ever inserted
MaxPomodoroId == 3       \* pomodoro sessions ever started
MaxThreads == 3          \* request threads of the web server

UserIds == {1, 2, 3}
RegisteredIds == {1, 2}              \* user 3 is an id with no users row
Subjects == {"Math", "Physics"}
Durations == {30, 45}
Targets == {60, 120}
SessionDates == {6, 7, 13}
WeekStarts == {0, 7}
Todays == {6, 13}                    \* values of date.today()

None == <<>>
Some(v) == <<v>>

usernameOf == [i \in UserIds |-> CASE i = 1 -> "alice" [] i = 2 -> "bob" [] OTHER -> "carol"]
emailOf == [i \in UserIds |-> CASE i = 1 -> "a@x" [] i = 2 -> "b@x" [] OTHER -> "c@x"]

userRow(i) == [user_id |-> i, username |-> usernameOf[i], email |-> emailOf[i]]

----------------------------------------------------------------------------
(* Helpers over bags of rows.  SumOver(f) is the sum of the values of a
   function with a finite domain. *)

RECURSIVE SumOver(_)
SumOver(f) ==
    IF DOMAIN f = {} THEN 0
    ELSE LET x == CHOOSE y \in DOMAIN f : TRUE
         IN  f[x] + SumOver([y \in DOMAIN f \ {x} |-> f[y]])

\* the rows of bag B satisfying P, with their multiplicity
BagFilter(B, P(_)) == [r \in {x \in DOMAIN B : P(x)} |-> B[r]]

\* SQL SUM(col) over the rows of a bag (0 for no rows; the callers apply COALESCE)
BagSum(B, col(_)) ==
    SumOver([r \in DOMAIN B |-> B[r] * col(r)])

\* the foreign key REFERENCES users(user_id), enforced by PRAGMA foreign_keys = ON
userExists(uid) == \E u \in users : u.user_id = uid

\* date.weekday(): Monday is 0
weekday(d) == d % 7

\* today - timedelta(days=today.weekday())
mondayOf(today) == today - weekday(today)

----------------------------------------------------------------------------
(* StudySessionManager.log_study_session *)

log_study_session(user_id, subject, duration_minutes, session_date_arg, today) ==
    LET session_date == IF session_date_arg = None THEN today ELSE session_date_arg[1]
        row == [user_id |-> user_id, subject |-> subject,
                duration_minutes |-> duration_minutes, session_date |-> session_date]
    IN  /\ IF userExists(user_id)
           THEN /\ study_sessions' = study_sessions (+) SetToBag({row})
                /\ result' = [op |-> "log_study_session", ok |-> TRUE,
                              msg |-> "Study session logged successfully"]
           ELSE \* sqlite3.IntegrityError: FOREIGN KEY constraint failed
                /\ study_sessions' = study_sessions
                /\ result' = [op |-> "log_study_session", ok |-> FALSE,
                              msg |-> "Database error"]
        /\ UNCHANGED <<users, study_goals, friendships, next_friendship_id,
                       pomodoro_sessions, next_pomodoro_id, pomodoro_layout, active_timers, threadVars>>

----------------------------------------------------------------------------
(* GoalManager.set_weekly_goal *)

goalKey(g) == <<g.user_id, g.subject, g.week_start_date>>

\* ON CONFLICT(user_id, subject, week_start_date): the rows the UNIQUE index
\* finds in conflict with the row being inserted
conflictingGoals(goals, row) ==
    BagFilter(goals, LAMBDA g : goalKey(g) = goalKey(row))

\* the INSERT with neither the ON CONFLICT clause nor the UNIQUE index behind it
insertGoal(goals, row) == goals (+) SetToBag({row})

\* INSERT ... ON CONFLICT(...) DO UPDATE SET weekly_target_minutes = excluded....
upsertGoal(goals, row) ==
    IF conflictingGoals(goals, row) = EmptyBag
    THEN goals (+) SetToBag({row})
    ELSE \* every conflicting row takes the new target, the others stay
         LET kept == BagFilter(goals, LAMBDA g : goalKey(g) # goalKey(row))
             n == BagCardinality(conflictingGoals(goals, row))
         IN  kept (+) [r \in {row} |-> n]

set_weekly_goal(user_id, subject, weekly_target_minutes, week_start_arg, today) ==
    LET week_start_date == IF week_start_arg = None THEN mondayOf(today)
                           ELSE week_start_arg[1]
        row == [user_id |-> user_id, subject |-> subject,
                weekly_target_minutes |-> weekly_target_minutes,
                week_start_date |-> week_start_date]
    IN  /\ IF userExists(user_id)
           THEN /\ study_goals' = upsertGoal(study_goals, row)
                /\ result' = [op |-> "set_weekly_goal", ok |-> TRUE,
                              msg |-> "Weekly goal set successfully"]
           ELSE \* sqlite3.IntegrityError: FOREIGN KEY constraint failed
                /\ study_goals' = study_goals
                /\ result' = [op |-> "set_weekly_goal", ok |-> FALSE,
                              msg |-> "Database error"]
        /\ UNCHANGED <<users, study_sessions, friendships, next_friendship_id,
                       pomodoro_sessions, next_pomodoro_id, pomodoro_layout, active_timers, threadVars>>

----------------------------------------------------------------------------
(* GoalManager.get_weekly_progress: a read, computed from the tables. *)

\* a window one day short: timedelta(days=5)
week_end_date_short(week_start_date) == week_start_date + 5

\* week_end_date = week_start_date + timedelta(days=6)
week_end_date(week_start_date) == week_start_date + 6

\* s.session_date BETWEEN ? AND ?  (both ends included)
between(d, lo, hi) == lo <= d /\ d <= hi

\* ON g.user_id = s.user_id AND g.subject = s.subject AND s.session_date BETWEEN ? AND ?
joinedSessions(g, week_start_date) ==
    BagFilter(study_sessions,
              LAMBDA s : /\ g.user_id = s.user_id
                         /\ g.subject = s.subject
                         /\ between(s.session_date, week_start_date,
                                    week_end_date(week_start_date)))

\* WHERE g.user_id = ? AND g.week_start_date = ?
selectedGoals(user_id, week_start_date) ==
    BagFilter(study_goals,
              LAMBDA g : g.user_id = user_id /\ g.week_start_date = week_start_date)

\* an inner JOIN instead: a goal with no matching session contributes no row
joinKeepsGoal_inner(g, week_start_date) ==
    BagFilter(study_sessions,
              LAMBDA s : /\ g.user_id = s.user_id
                         /\ g.subject = s.subject
                         /\ week_start_date <= s.session_date
                         /\ s.session_date <= week_start_date + 6) # EmptyBag

\* LEFT JOIN: whether goal g contributes a joined row at all.  A goal with no
\* matching session still contributes one row, whose s columns are NULL.
joinKeepsGoal(g, week_start_date) == TRUE

\* GROUP BY g.subject, g.weekly_target_minutes with COALESCE(SUM(s.duration_minutes), 0):
\* one output row per group; the sum runs over every joined row of the group
get_weekly_progress(user_id, week_arg, today) ==
    LET week_start_date == IF week_arg = None THEN mondayOf(today) ELSE week_arg[1]
        goals == BagFilter(selectedGoals(user_id, week_start_date),
                           LAMBDA g : joinKeepsGoal(g, week_start_date))
        groups == {<<g.subject, g.weekly_target_minutes>> : g \in DOMAIN goals}
        inGroup(grp) == {g \in DOMAIN goals :
                            <<g.subject, g.weekly_target_minutes>> = grp}
        groupSum(grp) ==
            SumOver([g \in inGroup(grp) |->
                        goals[g] * BagSum(joinedSessions(g, week_start_date),
                                          LAMBDA s : s.duration_minutes)])
    IN  {<<grp[1], grp[2], groupSum(grp)>> : grp \in groups}

----------------------------------------------------------------------------
(* The store after DatabaseManager.create_tables and the registration of   *)
(* the users of RegisteredIds: every other table is empty.                 *)

noResult == [op |-> "none", ok |-> TRUE, msg |-> ""]

Threads == 1..MaxThreads

\* no request is being served and both locks are free
threadsIdle ==
    /\ pc = [t \in Threads |-> [at |-> "idle", manager |-> "none"]]
    /\ db_lock = 0
    /\ pomodoro_db_lock = 0

InitStore ==
    /\ users = {userRow(i) : i \in RegisteredIds}
    /\ study_sessions = EmptyBag
    /\ study_goals = EmptyBag
    /\ friendships = {}
    /\ next_friendship_id = 1
    /\ pomodoro_sessions = {}
    /\ next_pomodoro_id = 1
    /\ active_timers = EmptyBag
    /\ threadsIdle
    /\ result = noResult

rowCount == BagCardinality(study_sessions) + BagCardinality(study_goals)

(* Goal reconciler: sessions are logged and goals are set, in any order. *)

InitProgress == InitStore /\ pomodoro_layout = "database"

\* an optional date argument together with the value of date.today(), which
\* the call reads only when the argument is None
dateInputs(dates) ==
    ({None} \X Todays) \cup ({Some(x) : x \in dates} \X {CHOOSE t \in Todays : TRUE})

LogSession ==
    /\ rowCount < MaxRows
    /\ \E u \in UserIds, s \in Subjects, d \in Durations,
          dt \in dateInputs(SessionDates) :
            log_study_session(u, s, d, dt[1], dt[2])

SetGoal ==
    /\ rowCount < MaxRows
    /\ \E u \in UserIds, s \in Subjects, t \in Targets,
          w \in dateInputs(WeekStarts) :
            set_weekly_goal(u, s, t, w[1], w[2])

NextProgress == LogSession \/ SetGoal

SpecProgress == InitProgress /\ [][NextProgress]_vars

(* Goal setting alone: the same store, with goals set and set again. *)

NextGoals == SetGoal

SpecGoals == InitProgress /\ [][NextGoals]_vars

----------------------------------------------------------------------------
(* FriendManager: requests, answers, removal. *)

Statuses == {"pending", "accepted", "rejected", "blocked"}

\* the direction of the request only: user_id = ? AND friend_id = ?
matchesPair_oneWay(f, a, b) == f.user_id = a /\ f.friend_id = b

\* WHERE (user_id = ? AND friend_id = ?) OR (user_id = ? AND friend_id = ?)
matchesPair(f, a, b) ==
    \/ (f.user_id = a /\ f.friend_id = b)
    \/ (f.user_id = b /\ f.friend_id = a)

\* the status branches without the one for 'blocked'
refusal_noBlocked(status) ==
    CASE status = "accepted" -> <<TRUE, "Already friends">>
      [] status = "pending" -> <<TRUE, "Friend request already pending">>
      [] OTHER -> <<FALSE, "">>

\* if existing[0] == 'accepted' ... elif 'pending' ... elif 'blocked': whether
\* the row found refuses the request, and with which message
refusal(status) ==
    CASE status = "accepted" -> <<TRUE, "Already friends">>
      [] status = "pending" -> <<TRUE, "Friend request already pending">>
      [] status = "blocked" -> <<TRUE, "Cannot send friend request">>
      [] OTHER -> <<FALSE, "">>

\* the table without its UNIQUE constraint
uniqueViolated_never(rows, a, b) == FALSE

\* UNIQUE(user_id, friend_id) of friendships
uniqueViolated(rows, a, b) == \E f \in rows : f.user_id = a /\ f.friend_id = b

sendResult(ok, msg) == [op |-> "send_friend_request", ok |-> ok, msg |-> msg]

\* the INSERT of a pending row and what follows it
insertRequest(user_id, friend_id) ==
    IF uniqueViolated(friendships, user_id, friend_id) \/ ~userExists(user_id)
    THEN \* sqlite3.IntegrityError, caught: nothing was inserted
         /\ UNCHANGED <<friendships, next_friendship_id>>
         /\ result' = sendResult(FALSE, "Failed to send friend request")
    ELSE /\ friendships' = friendships \cup
                {[friendship_id |-> next_friendship_id, user_id |-> user_id,
                  friend_id |-> friend_id, status |-> "pending"]}
         /\ next_friendship_id' = next_friendship_id + 1
         /\ result' = sendResult(TRUE, "Friend request sent!")

\* the test is left out
requestsSelf_never(user_id, friend_id) == FALSE

\* if user_id == friend_id
requestsSelf(user_id, friend_id) == user_id = friend_id

send_friend_request(user_id, friend_username) ==
    LET found == {u \in users : u.username = friend_username}
    IN  /\ IF found = {}
           THEN /\ UNCHANGED <<friendships, next_friendship_id>>
                /\ result' = sendResult(FALSE, "User not found")
           ELSE LET friend_id == (CHOOSE u \in found : TRUE).user_id
                    matching == {f \in friendships : matchesPair(f, user_id, friend_id)}
                IN  IF requestsSelf(user_id, friend_id)
                    THEN /\ UNCHANGED <<friendships, next_friendship_id>>
                         /\ result' = sendResult(FALSE, "Cannot add yourself as a friend")
                    ELSE IF matching = {}
                    THEN insertRequest(user_id, friend_id)
                    ELSE \* fetchone(): one of the matching rows; the statement has
                         \* no ORDER BY, so which one is not fixed
                         \E existing \in matching :
                            IF refusal(existing.status)[1]
                            THEN /\ UNCHANGED <<friendships, next_friendship_id>>
                                 /\ result' = sendResult(FALSE, refusal(existing.status)[2])
                            ELSE insertRequest(user_id, friend_id)
        /\ UNCHANGED <<users, study_sessions, study_goals, pomodoro_sessions,
                       next_pomodoro_id, pomodoro_layout, active_timers, threadVars>>

\* either party of the row may answer
isRecipient_eitherParty(f, user_id) == f.friend_id = user_id \/ f.user_id = user_id

\* AND friend_id = ?
isRecipient(f, user_id) == f.friend_id = user_id

\* the request is answered whatever its status
answerable_anyStatus(f, friendship_id, user_id) ==
    f.friendship_id = friendship_id /\ f.friend_id = user_id

\* WHERE friendship_id = ? AND friend_id = ? AND status = 'pending'
answerable(f, friendship_id, user_id) ==
    f.friendship_id = friendship_id /\ isRecipient(f, user_id) /\ f.status = "pending"

respond_to_request(friendship_id, user_id, accept) ==
    LET found == {f \in friendships : answerable(f, friendship_id, user_id)}
        new_status == IF accept THEN "accepted" ELSE "rejected"
    IN  /\ IF found = {}
           THEN /\ friendships' = friendships
                /\ result' = [op |-> "respond_to_request", ok |-> FALSE,
                              msg |-> "Friend request not found"]
           ELSE \* UPDATE friendships SET status = ? WHERE friendship_id = ?
                /\ friendships' =
                      {IF f.friendship_id = friendship_id
                       THEN [f EXCEPT !.status = new_status] ELSE f : f \in friendships}
                /\ result' = [op |-> "respond_to_request", ok |-> TRUE,
                              msg |-> IF accept THEN "Friend request accepted"
                                      ELSE "Friend request rejected"]
        /\ UNCHANGED <<users, study_sessions, study_goals, next_friendship_id,
                       pomodoro_sessions, next_pomodoro_id, pomodoro_layout, active_timers, threadVars>>

remove_friend(user_id, friend_id) ==
    /\ friendships' = {f \in friendships :
                          ~(matchesPair(f, user_id, friend_id) /\ f.status = "accepted")}
    /\ result' = [op |-> "remove_friend", ok |-> TRUE, msg |-> "Friend removed"]
    /\ UNCHANGED <<users, study_sessions, study_goals, next_friendship_id,
                   pomodoro_sessions, next_pomodoro_id, pomodoro_layout, active_timers, threadVars>>

----------------------------------------------------------------------------
(* FriendManager: the reads over the friend graph. *)

\* only the rows the user sent: f.user_id = ? AND f.friend_id = u.user_id
joinsFriend_sentOnly(f, u, user_id) == f.user_id = user_id /\ f.friend_id = u.user_id

\* JOIN friendships f ON ((f.user_id = ? AND f.friend_id = u.user_id) OR
\*                        (f.friend_id = ? AND f.user_id = u.user_id))
joinsFriend(f, u, user_id) ==
    \/ (f.user_id = user_id /\ f.friend_id = u.user_id)
    \/ (f.friend_id = user_id /\ f.user_id = u.user_id)

\* SELECT DISTINCT u.user_id, u.username ... WHERE f.status = 'accepted'
acceptedFriends(user_id) ==
    {[user_id |-> u.user_id, username |-> u.username] :
        u \in {x \in users : \E f \in friendships :
                  joinsFriend(f, x, user_id) /\ f.status = "accepted"}}

\* the collation of the usernames of the model
usernameRank(name) ==
    CASE name = "alice" -> 1 [] name = "bob" -> 2 [] name = "carol" -> 3 [] OTHER -> 4

RECURSIVE orderByUsername(_)
\* ORDER BY u.username
orderByUsername(rows) ==
    IF rows = {} THEN <<>>
    ELSE LET first == CHOOSE r \in rows :
                        \A q \in rows : usernameRank(r.username) <= usernameRank(q.username)
         IN  <<first>> \o orderByUsername(rows \ {first})

get_friends_list(user_id) == orderByUsername(acceptedFriends(user_id))

\* session_date >= date('now', '-7 days')
inTrailingWeek(d, today) == d >= today - 7

\* the columns get_friends_progress reads (status, duration_minutes, started_at)
\* are those of database.py; the table pomodoro_manager.py writes has none of them
progressQueryFails == pomodoro_layout = "legacy"

get_friends_progress(user_id, today) ==
    LET friends == acceptedFriends(user_id)
        regular_mins(fid) ==
            BagSum(BagFilter(study_sessions,
                             LAMBDA s : s.user_id = fid /\ inTrailingWeek(s.session_date, today)),
                   LAMBDA s : s.duration_minutes)
        completed(fid) == {p \in pomodoro_sessions :
                              p.user_id = fid /\ p.status = "completed"}
        pomodoro_mins(fid) ==
            SumOver([p \in {q \in completed(fid) : inTrailingWeek(q.started_at, today)} |->
                        p.duration_minutes])
        today_sessions(fid) == Cardinality({p \in completed(fid) : p.started_at = today})
    IN  IF friends # {} /\ progressQueryFails
        THEN {}   \* sqlite3.OperationalError in the loop, caught: return []
        ELSE {[user_id |-> f.user_id, username |-> f.username,
               weekly_minutes |-> regular_mins(f.user_id) + pomodoro_mins(f.user_id),
               today_sessions |-> today_sessions(f.user_id)] : f \in friends}

----------------------------------------------------------------------------
(* The friend graph: three registered users send, answer and remove. *)

InitFriends ==
    /\ users = {userRow(i) : i \in UserIds}
    /\ study_sessions = EmptyBag
    /\ study_goals = EmptyBag
    /\ friendships = {}
    /\ next_friendship_id = 1
    /\ pomodoro_sessions = {}
    /\ next_pomodoro_id = 1
    /\ active_timers = EmptyBag
    /\ threadsIdle
    /\ pomodoro_layout = "database"
    /\ result = noResult

Usernames == {usernameOf[i] : i \in UserIds} \cup {"dave"}

SendRequest ==
    /\ next_friendship_id <= MaxFriendshipId
    /\ \E u \in UserIds, name \in Usernames : send_friend_request(u, name)

Respond ==
    \E fid \in 1..MaxFriendshipId, u \in UserIds, accept \in BOOLEAN :
        respond_to_request(fid, u, accept)

RemoveFriend ==
    \E u \in UserIds, v \in UserIds : remove_friend(u, v)

NextFriends == SendRequest \/ Respond \/ RemoveFriend

SpecFriends == InitFriends /\ [][NextFriends]_vars

(* The friend graph of a store that already holds blocked rows.  No method *)
(* of FriendManager writes the status 'blocked'; the schema admits it and  *)
(* send_friend_request tests for it, so the rows are there from the start: *)
(* one blocked row, alone or with one more row of any status.              *)

OrderedPairs == {p \in UserIds \X UserIds : p[1] # p[2]}

friendshipRow(id, pair, status) ==
    [friendship_id |-> id, user_id |-> pair[1], friend_id |-> pair[2], status |-> status]

blockedStores ==
    {{friendshipRow(1, p, "blocked")} : p \in OrderedPairs}
    \cup {{friendshipRow(1, pq[1], "blocked"), friendshipRow(2, pq[2], st)} :
            pq \in {x \in OrderedPairs \X OrderedPairs : x[1] # x[2]}, st \in Statuses}

InitBlocked ==
    /\ users = {userRow(i) : i \in UserIds}
    /\ study_sessions = EmptyBag
    /\ study_goals = EmptyBag
    /\ friendships \in blockedStores
    /\ next_friendship_id = Cardinality(friendships) + 1
    /\ pomodoro_sessions = {}
    /\ next_pomodoro_id = 1
    /\ active_timers = EmptyBag
    /\ threadsIdle
    /\ pomodoro_layout = "database"
    /\ result = noResult

SpecBlocked == InitBlocked /\ [][NextFriends]_vars

----------------------------------------------------------------------------
(* PomodoroManager.  Its statements name the columns id, user_id, subject, *)
(* start_time, end_time, duration, session_type and completed, which are   *)
(* not the columns database.py gives pomodoro_sessions: in a store made by *)
(* database.py every statement of the manager raises                       *)
(* sqlite3.OperationalError, which the manager catches.  pomodoro_layout   *)
(* is "legacy" in a store whose table has the manager's columns and        *)
(* "database" in one made by database.py.  A legacy row is                 *)
(* [id, user_id, subject, duration, session_type, completed]; start_time   *)
(* and end_time are clock readings that no statement modelled here reads.  *)

PomodoroDurations == {25, 50}

statementRuns == pomodoro_layout = "legacy"

start_pomodoro_session(user_id, subject) ==
    /\ IF statementRuns
       THEN /\ pomodoro_sessions' = pomodoro_sessions \cup
                  {[id |-> next_pomodoro_id, user_id |-> user_id, subject |-> subject,
                    duration |-> 0, session_type |-> "focus", completed |-> FALSE]}
            /\ next_pomodoro_id' = next_pomodoro_id + 1
            /\ result' = [op |-> "start_pomodoro_session", ok |-> TRUE,
                          msg |-> "Pomodoro session started!",
                          session_id |-> next_pomodoro_id]
       ELSE /\ UNCHANGED <<pomodoro_sessions, next_pomodoro_id>>
            /\ result' = [op |-> "start_pomodoro_session", ok |-> FALSE,
                          msg |-> "Failed to start session", session_id |-> 0]
    /\ UNCHANGED <<users, study_sessions, study_goals, friendships,
                   next_friendship_id, pomodoro_layout, active_timers, threadVars>>

\* if cursor.rowcount >= 0: every call reports success
completeReturn_always(rowcount) ==
    [op |-> "complete_pomodoro_session", ok |-> TRUE,
     msg |-> "Pomodoro session completed!"]

\* if cursor.rowcount > 0: ... else: ...
completeReturn(rowcount) ==
    IF rowcount > 0
    THEN [op |-> "complete_pomodoro_session", ok |-> TRUE,
          msg |-> "Pomodoro session completed!"]
    ELSE [op |-> "complete_pomodoro_session", ok |-> FALSE,
          msg |-> "Session not found"]

\* UPDATE pomodoro_sessions SET ... WHERE id = ?
completeTargets(session_id) == {p \in pomodoro_sessions : p.id = session_id}

complete_pomodoro_session(session_id, duration_minutes) ==
    /\ IF statementRuns
       THEN /\ pomodoro_sessions' =
                  {IF p \in completeTargets(session_id)
                   THEN [p EXCEPT !.duration = duration_minutes, !.completed = TRUE]
                   ELSE p : p \in pomodoro_sessions}
            /\ result' = completeReturn(Cardinality(completeTargets(session_id)))
       ELSE /\ UNCHANGED pomodoro_sessions
            /\ result' = [op |-> "complete_pomodoro_session", ok |-> FALSE,
                          msg |-> "Failed to complete session"]
    /\ UNCHANGED <<users, study_sessions, study_goals, friendships,
                   next_friendship_id, next_pomodoro_id, pomodoro_layout, active_timers, threadVars>>

\* the DELETE without its test of completed
cancelTargets_anyState(session_id) == {p \in pomodoro_sessions : p.id = session_id}

\* DELETE FROM pomodoro_sessions WHERE id = ? AND completed = ?   (False)
cancelTargets(session_id) ==
    {p \in pomodoro_sessions : p.id = session_id /\ p.completed = FALSE}

cancel_pomodoro_session(session_id) ==
    /\ IF statementRuns
       THEN /\ pomodoro_sessions' = pomodoro_sessions \ cancelTargets(session_id)
            /\ result' = [op |-> "cancel_pomodoro_session", ok |-> TRUE,
                          msg |-> "Pomodoro session cancelled"]
       ELSE /\ UNCHANGED pomodoro_sessions
            /\ result' = [op |-> "cancel_pomodoro_session", ok |-> FALSE,
                          msg |-> "Failed to cancel session"]
    /\ UNCHANGED <<users, study_sessions, study_goals, friendships,
                   next_friendship_id, next_pomodoro_id, pomodoro_layout, active_timers, threadVars>>

\* WHERE user_id = ? AND completed = ? AND session_type = ?   (True, 'focus')
countedPomodoros(user_id) ==
    {p \in pomodoro_sessions :
        p.user_id = user_id /\ p.completed = TRUE /\ p.session_type = "focus"}

totals(regular_time, pomodoro_time) ==
    [regular_minutes |-> regular_time, pomodoro_minutes |-> pomodoro_time,
     total_minutes |-> regular_time + pomodoro_time,
     total_hours |-> (regular_time + pomodoro_time) \div 60,
     remaining_minutes |-> (regular_time + pomodoro_time) % 60]

\* a read: the dictionary the call returns
get_total_study_time_including_pomodoros(user_id) ==
    LET regular_time ==
            BagSum(BagFilter(study_sessions, LAMBDA x : x.user_id = user_id),
                   LAMBDA x : x.duration_minutes)
        pomodoro_time ==
            SumOver([p \in countedPomodoros(user_id) |-> p.duration])
    IN  IF statementRuns
        THEN totals(regular_time, pomodoro_time)
        ELSE \* the second SELECT raises sqlite3.OperationalError; except Exception
             totals(0, 0)

(* Pomodoro sessions of the registered users, in a store whose table has   *)
(* the manager's columns.                                                  *)

InitPomodoro == InitStore /\ pomodoro_layout = "legacy"

SessionIds == 1..MaxPomodoroId

StartPomodoro ==
    /\ next_pomodoro_id <= MaxPomodoroId
    /\ \E u \in RegisteredIds, s \in Subjects : start_pomodoro_session(u, s)

CompletePomodoro ==
    \E sid \in SessionIds, d \in PomodoroDurations : complete_pomodoro_session(sid, d)

CancelPomodoro ==
    \E sid \in SessionIds : cancel_pomodoro_session(sid)

NextPomodoro == StartPomodoro \/ CompletePomodoro \/ CancelPomodoro

SpecPomodoro == InitPomodoro /\ [][NextPomodoro]_vars

----------------------------------------------------------------------------
(* FriendManager: the live timers.  active_timers has no UNIQUE index on   *)
(* user_id; its rows are kept as a bag, without the AUTOINCREMENT timer_id *)
(* and without the clock readings started_at and last_updated.  Every      *)
(* statement runs on the one shared connection, where a change is seen by  *)
(* every later statement whether or not it was committed, and no method    *)
(* rolls back: a DELETE that ran before a failing INSERT stays in effect.  *)
(* The foreign key of session_id names pomodoro_sessions(session_id), a    *)
(* column only the table of database.py has; no statement of this          *)
(* repository inserts into that table, so the sessions a timer can refer   *)
(* to are rows the store already holds.  They are rows                     *)
(* [session_id, user_id, duration_minutes, status, started_at].            *)

\* FOREIGN KEY (session_id) REFERENCES pomodoro_sessions(session_id)
sessionExists(session_id) ==
    /\ pomodoro_layout = "database"
    /\ \E p \in pomodoro_sessions : p.session_id = session_id

\* without the parent column session_id the foreign key cannot be resolved and
\* every statement on active_timers raises sqlite3.OperationalError
timerStatementRuns == pomodoro_layout = "database"

\* int(is_break) on the way in, bool(row[4]) on the way out
intOf(b) == IF b THEN 1 ELSE 0
boolOf(i) == i # 0

\* the DELETE leaves the rows of the user where they are
deleteTimers_none(timers, user_id) == timers

\* DELETE FROM active_timers WHERE user_id = ?
deleteTimers(timers, user_id) == BagFilter(timers, LAMBDA t : t.user_id # user_id)

\* if time_remaining >= 0
insertsTimer_zero(time_remaining) == time_remaining >= 0

\* if time_remaining > 0
insertsTimer(time_remaining) == time_remaining > 0

timerRow(user_id, session_id, subject, duration_minutes, time_remaining, is_break) ==
    [user_id |-> user_id, session_id |-> session_id, subject |-> subject,
     duration_minutes |-> duration_minutes, time_remaining |-> time_remaining,
     is_break |-> intOf(is_break)]

timerResult(op, ok) == [op |-> op, ok |-> ok, msg |-> ""]

update_active_timer(user_id, session_id, subject, duration_minutes, time_remaining, is_break) ==
    LET deleted == deleteTimers(active_timers, user_id)
        row == timerRow(user_id, session_id, subject, duration_minutes,
                        time_remaining, is_break)
    IN  /\ IF ~timerStatementRuns
           THEN /\ active_timers' = active_timers
                /\ result' = timerResult("update_active_timer", FALSE)
           ELSE IF ~insertsTimer(time_remaining)
           THEN /\ active_timers' = deleted
                /\ result' = timerResult("update_active_timer", TRUE)
           ELSE IF userExists(user_id) /\ sessionExists(session_id)
           THEN /\ active_timers' = deleted (+) SetToBag({row})
                /\ result' = timerResult("update_active_timer", TRUE)
           ELSE \* sqlite3.IntegrityError: FOREIGN KEY constraint failed, caught
                \* after the DELETE has run
                /\ active_timers' = deleted
                /\ result' = timerResult("update_active_timer", FALSE)
        /\ UNCHANGED <<users, study_sessions, study_goals, friendships,
                       next_friendship_id, pomodoro_sessions, next_pomodoro_id,
                       pomodoro_layout, threadVars>>

clear_active_timer(user_id) ==
    /\ IF timerStatementRuns
       THEN /\ active_timers' = deleteTimers(active_timers, user_id)
            /\ result' = timerResult("clear_active_timer", TRUE)
       ELSE /\ active_timers' = active_timers
            /\ result' = timerResult("clear_active_timer", FALSE)
    /\ UNCHANGED <<users, study_sessions, study_goals, friendships,
                   next_friendship_id, pomodoro_sessions, next_pomodoro_id,
                   pomodoro_layout, threadVars>>

\* the timers of pending friends are shown too
timerVisible_pending(f) == f.status \in {"accepted", "pending"}

\* WHERE f.status = 'accepted'
timerVisible(f) == f.status = "accepted"

\* AND t.time_remaining > 0
timerLive(t) == t.time_remaining > 0

\* SELECT DISTINCT u.username, t.subject, t.duration_minutes, t.time_remaining,
\* t.is_break FROM active_timers t JOIN users u ... JOIN friendships f ...
friendTimerRows(user_id) ==
    {[username |-> u.username, subject |-> t.subject,
      duration_minutes |-> t.duration_minutes,
      time_remaining |-> t.time_remaining, is_break |-> boolOf(t.is_break)] :
        <<t, u>> \in {tu \in (DOMAIN active_timers) \X users :
                        /\ tu[1].user_id = tu[2].user_id
                        /\ timerLive(tu[1])
                        /\ \E f \in friendships :
                              joinsFriend(f, tu[2], user_id) /\ timerVisible(f)}}

\* ORDER BY u.username: every arrangement of the rows in which the usernames
\* do not decrease (rows of one username come in an order the statement does
\* not fix)
orderingsByUsername(rows) ==
    {sq \in [1..Cardinality(rows) -> rows] :
        /\ \A i, j \in DOMAIN sq : i # j => sq[i] # sq[j]
        /\ \A i, j \in DOMAIN sq :
              i < j => usernameRank(sq[i].username) <= usernameRank(sq[j].username)}

\* the lists the call can return
get_active_friend_timers(user_id) ==
    IF timerStatementRuns THEN orderingsByUsername(friendTimerRows(user_id))
    ELSE {<<>>}

(* Live timers of the registered users, in a store made by database.py     *)
(* that holds no Pomodoro session or the two sessions of storedSessions.   *)

storedSession(id, user_id) ==
    [session_id |-> id, user_id |-> user_id, duration_minutes |-> 25,
     status |-> "active", started_at |-> 6]

storedSessions == {storedSession(1, 1), storedSession(2, 2)}

TimerSessionIds == {1, 2, 3}         \* no stored session has the id 3
TimerDurations == {25}
TimeRemainings == {0 - 5, 0, 60, 1500}

InitTimers ==
    /\ users = {userRow(i) : i \in RegisteredIds}
    /\ study_sessions = EmptyBag
    /\ study_goals = EmptyBag
    /\ friendships = {}
    /\ next_friendship_id = 1
    /\ pomodoro_sessions \in {{}, storedSessions}
    /\ next_pomodoro_id = 1
    /\ pomodoro_layout = "database"
    /\ active_timers = EmptyBag
    /\ threadsIdle
    /\ result = noResult

UpdateTimer ==
    \E u \in UserIds, sid \in TimerSessionIds, s \in Subjects, d \in TimerDurations,
       tr \in TimeRemainings, b \in BOOLEAN :
        update_active_timer(u, sid, s, d, tr, b)

ClearTimer ==
    \E u \in UserIds : clear_active_timer(u)

NextTimers == UpdateTimer \/ ClearTimer

SpecTimers == InitTimers /\ [][NextTimers]_vars

(* Live timers over a friend graph.  The store starts with any of the      *)
(* graphs made of at most one row per pair 1->2, 3->1 and 2->3, each in    *)
(* any status; requests are then answered, friends removed and timers      *)
(* updated and cleared.                                                    *)

graphRows(pair, id) == {{}} \cup {{friendshipRow(id, pair, st)} : st \in Statuses}

friendGraphs ==
    {a \cup b \cup c : a \in graphRows(<<1, 2>>, 1), b \in graphRows(<<3, 1>>, 2),
                       c \in graphRows(<<2, 3>>, 3)}

InitFriendTimers ==
    /\ users = {userRow(i) : i \in UserIds}
    /\ study_sessions = EmptyBag
    /\ study_goals = EmptyBag
    /\ friendships \in friendGraphs
    /\ next_friendship_id = 4
    /\ pomodoro_sessions = storedSessions
    /\ next_pomodoro_id = 1
    /\ pomodoro_layout = "database"
    /\ active_timers = EmptyBag
    /\ threadsIdle
    /\ result = noResult

UpdateFriendTimer ==
    \E u \in UserIds, s \in Subjects, tr \in {0, 60} :
        update_active_timer(u, 1, s, 25, tr, FALSE)

NextFriendTimers == UpdateFriendTimer \/ ClearTimer \/ Respond \/ RemoveFriend

SpecFriendTimers == InitFriendTimers /\ [][NextFriendTimers]_vars

(* Progress of friends.  alice and bob are linked by a request, pending or *)
(* accepted; bob logs study sessions; the store made by database.py holds  *)
(* Pomodoro sessions of bob in each status, started inside and before the  *)
(* week that ends on day 6.                                                *)

pomodoroRow(id, user_id, minutes, status, started_at) ==
    [session_id |-> id, user_id |-> user_id, duration_minutes |-> minutes,
     status |-> status, started_at |-> started_at]

progressSessions ==
    {pomodoroRow(1, 2, 25, "completed", 6), pomodoroRow(2, 2, 25, "active", 6),
     pomodoroRow(3, 2, 50, "cancelled", 5), pomodoroRow(4, 2, 50, "completed", 0 - 3)}

InitFriendsProgress ==
    /\ users = {userRow(i) : i \in UserIds}
    /\ study_sessions = EmptyBag
    /\ study_goals = EmptyBag
    /\ friendships \in {{friendshipRow(1, <<1, 2>>, st)} : st \in {"pending", "accepted"}}
    /\ next_friendship_id = 2
    /\ pomodoro_sessions \in {{}, progressSessions}
    /\ next_pomodoro_id = 1
    /\ pomodoro_layout = "database"
    /\ active_timers = EmptyBag
    /\ threadsIdle
    /\ result = noResult

LogFriendSession ==
    /\ rowCount < MaxRows
    /\ \E d \in Durations, dt \in dateInputs(SessionDates) :
          log_study_session(2, "Math", d, dt[1], dt[2])

NextFriendsProgress == LogFriendSession \/ Respond \/ RemoveFriend

SpecFriendsProgress == InitFriendsProgress /\ [][NextFriendsProgress]_vars

(* Study time in total: alice logs study sessions and the registered users *)
(* run Pomodoro sessions, in a store of either kind.                       *)

InitTotals == InitStore /\ pomodoro_layout \in {"legacy", "database"}

LogTotalSession ==
    /\ rowCount < MaxRows
    /\ \E d \in Durations : log_study_session(1, "Math", d, Some(6), 6)

NextTotals == LogTotalSession \/ StartPomodoro \/ CompletePomodoro \/ CancelPomodoro

SpecTotals == InitTotals /\ [][NextTotals]_vars

----------------------------------------------------------------------------
(* Request threads.  app.run serves every request on a thread of its own,  *)
(* and all threads share the one connection of DatabaseManager             *)
(* (check_same_thread=False).  A request runs an operation of the managers *)
(* app.py wires to its routes: WebUserManager and WebSessionManager, whose *)
(* methods run `with db_lock:` on the lock of app.py, and PomodoroManager, *)
(* whose methods run `with self.db_lock:` on the lock its constructor      *)
(* makes.  An operation is followed through the places where another       *)
(* thread can run: waiting for its lock, executing its statements on the   *)
(* connection, closing its cursor and leaving the with block.  The         *)
(* operations followed are reads (get_user_sessions,                       *)
(* get_user_pomodoro_stats), which leave the tables as they are.           *)

Managers == {"web", "pomodoro"}

storeVars == <<users, study_sessions, study_goals, friendships, next_friendship_id,
               pomodoro_sessions, next_pomodoro_id, pomodoro_layout, active_timers,
               result>>

\* the lock the methods of a manager take
lockOf(manager) == IF manager = "pomodoro" THEN "PomodoroManager.db_lock" ELSE "db_lock"

lockHolder(lock) == IF lock = "db_lock" THEN db_lock ELSE pomodoro_db_lock

\* a route calls a method of one of the managers
BeginRequest(t) ==
    /\ pc[t].at = "idle"
    /\ \E m \in Managers : pc' = [pc EXCEPT ![t] = [at |-> "acquire", manager |-> m]]
    /\ UNCHANGED <<db_lock, pomodoro_db_lock>>
    /\ UNCHANGED storeVars

\* with <lock>: threading.Lock.acquire blocks until the lock is free
AcquireLock(t) ==
    /\ pc[t].at = "acquire"
    /\ lockHolder(lockOf(pc[t].manager)) = 0
    /\ IF lockOf(pc[t].manager) = "db_lock"
       THEN db_lock' = t /\ UNCHANGED pomodoro_db_lock
       ELSE pomodoro_db_lock' = t /\ UNCHANGED db_lock
    /\ pc' = [pc EXCEPT ![t].at = "execute"]
    /\ UNCHANGED storeVars

\* cursor = self.db.connection.cursor(); cursor.execute(...); cursor.fetchall()
ExecuteStatements(t) ==
    /\ pc[t].at = "execute"
    /\ pc' = [pc EXCEPT ![t].at = "close"]
    /\ UNCHANGED <<db_lock, pomodoro_db_lock>>
    /\ UNCHANGED storeVars

\* finally: cursor.close(), and the end of the with block releases the lock
ReleaseLock(t) ==
    /\ pc[t].at = "close"
    /\ IF lockOf(pc[t].manager) = "db_lock"
       THEN db_lock' = 0 /\ UNCHANGED pomodoro_db_lock
       ELSE pomodoro_db_lock' = 0 /\ UNCHANGED db_lock
    /\ pc' = [pc EXCEPT ![t] = [at |-> "idle", manager |-> "none"]]
    /\ UNCHANGED storeVars

InitThreads == InitStore /\ pomodoro_layout = "legacy"

NextThreads ==
    \E t \in Threads :
        BeginRequest(t) \/ AcquireLock(t) \/ ExecuteStatements(t) \/ ReleaseLock(t)

SpecThreads == InitThreads /\ [][NextThreads]_vars

----------------------------------------------------------------------------
(* UserManager.register_user (and WebUserManager.register_user of app.py,  *)
(* the same statements under db_lock).  The password and its hash are not  *)
(* read by any statement modelled here.                                    *)

MaxUsers == 3            \* users ever registered

RegisterNames == {"alice", "bob", "carol", "dave"}
RegisterEmails == {"a@x", "b@x", "c@x", "d@x"}

\* the check looks at the username only
existingUsers_usernameOnly(username, email) == {u \in users : u.username = username}

\* SELECT username, email FROM users WHERE username = ? OR email = ?
existingUsers(username, email) ==
    {u \in users : u.username = username \/ u.email = email}

\* username TEXT UNIQUE NOT NULL; email TEXT carries no constraint
usernameUniqueViolated(username) == \E u \in users : u.username = username

registerResult(ok, msg) == [op |-> "register_user", ok |-> ok, msg |-> msg]

register_user(username, email) ==
    /\ IF existingUsers(username, email) # {}
       THEN \* fetchone(): one of the rows found; the statement has no ORDER BY
            /\ \E existing_user \in existingUsers(username, email) :
                  result' = registerResult(FALSE,
                                IF existing_user.username = username
                                THEN "Username already exists"
                                ELSE "Email already exists")
            /\ users' = users
       ELSE IF usernameUniqueViolated(username)
       THEN \* sqlite3.IntegrityError: UNIQUE constraint failed, caught
            /\ result' = registerResult(FALSE, "Database error")
            /\ users' = users
       ELSE \* user_id INTEGER PRIMARY KEY AUTOINCREMENT; no row is ever deleted
            /\ users' = users \cup {[user_id |-> Cardinality(users) + 1,
                                     username |-> username, email |-> email]}
            /\ result' = registerResult(TRUE, "User registered successfully")
    /\ UNCHANGED <<study_sessions, study_goals, friendships, next_friendship_id,
                   pomodoro_sessions, next_pomodoro_id, pomodoro_layout,
                   active_timers, threadVars>>

(* Registration into the empty store create_tables leaves. *)

InitUsers ==
    /\ users = {}
    /\ study_sessions = EmptyBag
    /\ study_goals = EmptyBag
    /\ friendships = {}
    /\ next_friendship_id = 1
    /\ pomodoro_sessions = {}
    /\ next_pomodoro_id = 1
    /\ pomodoro_layout = "database"
    /\ active_timers = EmptyBag
    /\ threadsIdle
    /\ result = noResult

RegisterUser ==
    /\ Cardinality(users) < MaxUsers
    /\ \E name \in RegisterNames, email \in RegisterEmails : register_user(name, email)

NextUsers == RegisterUser

SpecUsers == InitUsers /\ [][NextUsers]_vars

----------------------------------------------------------------------------
(* Store failures.  A write operation meets a store that fails where it    *)
(* obtains its cursor (self.db.connection.cursor() on a closed connection  *)
(* raises sqlite3.ProgrammingError) or where it executes its first         *)
(* statement (sqlite3.OperationalError), or meets no failure.  What the    *)
(* caller then gets follows from where the method places the call of       *)
(* cursor() and from its except and finally clauses.  A call that raises   *)
(* leaves in result the record [op, raised] instead of a returned value.   *)

FaultPoints == {"none", "cursor", "execute"}

\* managers.py: try: cursor = self.db.connection.cursor() ... except
\* sqlite3.Error ... finally: cursor.close().  friend_manager.py and
\* pomodoro_manager.py call cursor() before their try.
cursorInsideTry(op) == op \in {"register_user", "log_study_session", "set_weekly_goal"}

\* the value the except clause of the method returns
failureResult(op) ==
    CASE op \in {"register_user", "log_study_session", "set_weekly_goal"} ->
            [op |-> op, ok |-> FALSE, msg |-> "Database error"]
      [] op = "send_friend_request" ->
            [op |-> op, ok |-> FALSE, msg |-> "Failed to send friend request"]
      [] op = "respond_to_request" ->
            [op |-> op, ok |-> FALSE, msg |-> "Failed to respond to request"]
      [] op = "remove_friend" ->
            [op |-> op, ok |-> FALSE, msg |-> "Failed to remove friend"]
      [] op = "update_active_timer" -> [op |-> op, ok |-> FALSE, msg |-> ""]
      [] op = "start_pomodoro_session" ->
            [op |-> op, ok |-> FALSE, msg |-> "Failed to start session", session_id |-> 0]
      [] op = "complete_pomodoro_session" ->
            [op |-> op, ok |-> FALSE, msg |-> "Failed to complete session"]
      [] OTHER -> [op |-> op, ok |-> FALSE, msg |-> "Failed to cancel session"]

\* what reaches the caller when cursor() raises: inside the try the error is
\* caught, and then finally: cursor.close() names a variable never assigned;
\* before the try nothing catches it
cursorFailure(op) ==
    IF cursorInsideTry(op)
    THEN [op |-> op, raised |-> "UnboundLocalError"]
    ELSE [op |-> op, raised |-> "sqlite3.ProgrammingError"]

\* the call with a store that fails at the given point: no statement ran
storeFailure(op, fault) ==
    /\ result' = IF fault = "cursor" THEN cursorFailure(op) ELSE failureResult(op)
    /\ UNCHANGED <<users, study_sessions, study_goals, friendships,
                   next_friendship_id, pomodoro_sessions, next_pomodoro_id,
                   pomodoro_layout, active_timers, threadVars>>

InitFaults == InitStore /\ pomodoro_layout = "legacy"

RegisterWithFault ==
    /\ Cardinality(users) < MaxUsers
    /\ \E fault \in FaultPoints :
          IF fault = "none" THEN register_user("carol", "c@x")
          ELSE storeFailure("register_user", fault)

LogWithFault ==
    /\ rowCount < MaxRows
    /\ \E fault \in FaultPoints :
          IF fault = "none" THEN log_study_session(1, "Math", 30, Some(6), 6)
          ELSE storeFailure("log_study_session", fault)

SetGoalWithFault ==
    /\ rowCount < MaxRows
    /\ \E fault \in FaultPoints :
          IF fault = "none" THEN set_weekly_goal(1, "Math", 60, Some(7), 6)
          ELSE storeFailure("set_weekly_goal", fault)

SendWithFault ==
    /\ next_friendship_id <= MaxFriendshipId
    /\ \E fault \in FaultPoints :
          IF fault = "none" THEN send_friend_request(1, "bob")
          ELSE storeFailure("send_friend_request", fault)

RespondWithFault ==
    \E fault \in FaultPoints, fid \in 1..MaxFriendshipId :
        IF fault = "none" THEN respond_to_request(fid, 2, TRUE)
        ELSE storeFailure("respond_to_request", fault)

RemoveWithFault ==
    \E fault \in FaultPoints :
        IF fault = "none" THEN remove_friend(1, 2)
        ELSE storeFailure("remove_friend", fault)

UpdateTimerWithFault ==
    \E fault \in FaultPoints :
        IF fault = "none" THEN update_active_timer(1, 1, "Math", 25, 60, FALSE)
        ELSE storeFailure("update_active_timer", fault)

StartWithFault ==
    /\ next_pomodoro_id <= MaxPomodoroId
    /\ \E fault \in FaultPoints :
          IF fault = "none" THEN start_pomodoro_session(1, "Math")
          ELSE storeFailure("start_pomodoro_session", fault)

CompleteWithFault ==
    \E fault \in FaultPoints, sid \in SessionIds :
        IF fault = "none" THEN complete_pomodoro_session(sid, 25)
        ELSE storeFailure("complete_pomodoro_session", fault)

CancelWithFault ==
    \E fault \in FaultPoints, sid \in SessionIds :
        IF fault = "none" THEN cancel_pomodoro_session(sid)
        ELSE storeFailure("cancel_pomodoro_session", fault)

NextFaults ==
    \/ RegisterWithFault \/ LogWithFault \/ SetGoalWithFault
    \/ SendWithFault \/ RespondWithFault \/ RemoveWithFault \/ UpdateTimerWithFault
    \/ StartWithFault \/ CompleteWithFault \/ CancelWithFault

SpecFaults == InitFaults /\ [][NextFaults]_vars

----------------------------------------------------------------------------
(* Goals for a week the caller names by any of its days.  week_start_date  *)
(* is a date the caller passes; day 2 is a Wednesday.                      *)

GoalDays == {0, 2, 7}

SetGoalOnDay ==
    /\ rowCount < MaxRows
    /\ \E u \in RegisteredIds, s \in Subjects, t \in Targets,
          w \in dateInputs(GoalDays) :
            set_weekly_goal(u, s, t, w[1], w[2])

NextGoalDays == SetGoalOnDay

SpecGoalDays == InitProgress /\ [][NextGoalDays]_vars

----------------------------------------------------------------------------
(* Sessions of any duration.  duration_minutes is the integer the caller   *)
(* passes (app.py: int(request.form['duration'])), of either sign.         *)

AnyDurations == {0 - 30, 0, 30, 45}

LogAnyDuration ==
    /\ rowCount < MaxRows
    /\ \E s \in Subjects, d \in AnyDurations, dt \in dateInputs({6}) :
          log_study_session(1, s, d, dt[1], dt[2])

NextDurations == LogAnyDuration

SpecDurations == InitProgress /\ [][NextDurations]_vars

----------------------------------------------------------------------------
(* Timers and the end of their session.  In a store made by database.py    *)
(* timers are stored for the sessions it holds and the statements of       *)
(* PomodoroManager raise; in a store whose pomodoro_sessions table has the *)
(* manager's columns sessions are started, completed and cancelled and no  *)
(* timer can be stored.  No route of app.py and no method of               *)
(* PomodoroManager calls clear_active_timer.                               *)

InitSessionEnd ==
    /\ users = {userRow(i) : i \in RegisteredIds}
    /\ study_sessions = EmptyBag
    /\ study_goals = EmptyBag
    /\ friendships = {}
    /\ next_friendship_id = 1
    /\ pomodoro_layout \in {"legacy", "database"}
    /\ pomodoro_sessions = IF pomodoro_layout = "database" THEN storedSessions ELSE {}
    /\ next_pomodoro_id = 1
    /\ active_timers = EmptyBag
    /\ threadsIdle
    /\ result = noResult

NextSessionEnd ==
    \/ UpdateFriendTimer \/ ClearTimer
    \/ StartPomodoro \/ CompletePomodoro \/ CancelPomodoro

SpecSessionEnd == InitSessionEnd /\ [][NextSessionEnd]_vars

(* Deleting a user.  No method of the managers deletes a users row; the    *)
(* statement DELETE FROM users WHERE user_id = ? is run on the store that  *)
(* create_tables makes, where PRAGMA foreign_keys = ON and every foreign   *)
(* key is declared ON DELETE CASCADE.  The cascade follows each declared   *)
(* key: the rows that refer to the user, and the active_timers rows that   *)
(* refer to a pomodoro_sessions row deleted by the cascade.                *)

delete_user(user_id) ==
    LET deletedSessions == {p.session_id : p \in {q \in pomodoro_sessions : q.user_id = user_id}}
    IN  /\ users' = {u \in users : u.user_id # user_id}
        /\ study_sessions' = BagFilter(study_sessions, LAMBDA r : r.user_id # user_id)
        /\ study_goals' = BagFilter(study_goals, LAMBDA r : r.user_id # user_id)
        /\ friendships' = {f \in friendships : f.user_id # user_id /\ f.friend_id # user_id}
        /\ pomodoro_sessions' = {p \in pomodoro_sessions : p.user_id # user_id}
        /\ active_timers' = BagFilter(active_timers,
                              LAMBDA t : t.user_id # user_id /\ t.session_id \notin deletedSessions)
        /\ result' = [op |-> "delete_user", ok |-> TRUE, msg |-> ""]
        /\ UNCHANGED <<next_friendship_id, next_pomodoro_id, pomodoro_layout, threadVars>>

cascadeGraph ==
    {friendshipRow(1, <<1, 2>>, "accepted"), friendshipRow(2, <<3, 1>>, "pending"),
     friendshipRow(3, <<2, 3>>, "pending")}

InitCascade ==
    /\ users = {userRow(i) : i \in UserIds}
    /\ study_sessions = EmptyBag
    /\ study_goals = EmptyBag
    /\ friendships = cascadeGraph
    /\ next_friendship_id = 4
    /\ pomodoro_sessions = storedSessions
    /\ next_pomodoro_id = 1
    /\ pomodoro_layout = "database"
    /\ active_timers = EmptyBag
    /\ threadsIdle
    /\ result = noResult

LogOwnSession ==
    /\ rowCount < MaxRows
    /\ \E u \in UserIds : log_study_session(u, "Math", 30, Some(6), 6)

SetOwnGoal ==
    /\ rowCount < MaxRows
    /\ \E u \in UserIds : set_weekly_goal(u, "Math", 60, Some(0), 6)

ShowTimer ==
    \E u \in UserIds, sid \in {1, 2} : update_active_timer(u, sid, "Math", 25, 60, FALSE)

DeleteUser ==
    \E u \in UserIds : userExists(u) /\ delete_user(u)

NextCascade == LogOwnSession \/ SetOwnGoal \/ ShowTimer \/ DeleteUser

SpecCascade == InitCascade /\ [][NextCascade]_vars

(* Answering requests over a stored friend graph: the store starts with    *)
(* any of the friend graphs, and requests are answered and friends removed *)
(* by any user, under any friendship id.                                   *)

NextRespond == Respond \/ RemoveFriend

SpecRespond == InitFriendTimers /\ [][NextRespond]_vars

(* update_active_timer, statement by statement.  FriendManager takes no    *)
(* lock, and the connection is opened with check_same_thread=False: the    *)
(* threads of the server run the statements of their calls on the one      *)
(* connection in any interleaving.  A thread's call is at its DELETE, at   *)
(* its INSERT or at its commit.                                            *)

ConcurrentRemainings == {0, 60}

timerCall(user_id, time_remaining) ==
    [user_id |-> user_id, session_id |-> 1, subject |-> "Math", duration_minutes |-> 25,
     time_remaining |-> time_remaining, is_break |-> FALSE]

atStep(t, step) == pc[t].at = step /\ pc[t].manager = "friend"

endOfCall(t) == pc' = [pc EXCEPT ![t] = [at |-> "idle", manager |-> "none"]]

\* a route calls update_active_timer: cursor = self.db.connection.cursor()
BeginTimerUpdate(t) ==
    /\ pc[t].at = "idle"
    /\ \E u \in RegisteredIds, tr \in ConcurrentRemainings :
          pc' = [pc EXCEPT ![t] = [at |-> "delete", manager |-> "friend",
                                   call |-> timerCall(u, tr)]]
    /\ UNCHANGED <<db_lock, pomodoro_db_lock>>
    /\ UNCHANGED storeVars

\* cursor.execute("DELETE FROM active_timers WHERE user_id = ?")
DeleteStep(t) ==
    /\ atStep(t, "delete")
    /\ active_timers' = deleteTimers(active_timers, pc[t].call.user_id)
    /\ pc' = [pc EXCEPT ![t].at = IF insertsTimer(pc[t].call.time_remaining)
                                  THEN "insert" ELSE "commit"]
    /\ UNCHANGED <<users, study_sessions, study_goals, friendships, next_friendship_id,
                   pomodoro_sessions, next_pomodoro_id, pomodoro_layout, result,
                   db_lock, pomodoro_db_lock>>

\* cursor.execute("INSERT INTO active_timers ..."), or sqlite3.IntegrityError
\* caught: return False
InsertStep(t) ==
    LET c == pc[t].call
    IN  /\ atStep(t, "insert")
        /\ IF userExists(c.user_id) /\ sessionExists(c.session_id)
           THEN /\ active_timers' = active_timers (+)
                      SetToBag({timerRow(c.user_id, c.session_id, c.subject,
                                         c.duration_minutes, c.time_remaining, c.is_break)})
                /\ pc' = [pc EXCEPT ![t].at = "commit"]
                /\ UNCHANGED result
           ELSE /\ UNCHANGED active_timers
                /\ endOfCall(t)
                /\ result' = timerResult("update_active_timer", FALSE)
        /\ UNCHANGED <<users, study_sessions, study_goals, friendships, next_friendship_id,
                       pomodoro_sessions, next_pomodoro_id, pomodoro_layout,
                       db_lock, pomodoro_db_lock>>

\* self.db.connection.commit(); return True; finally: cursor.close()
CommitStep(t) ==
    /\ atStep(t, "commit")
    /\ endOfCall(t)
    /\ result' = timerResult("update_active_timer", TRUE)
    /\ UNCHANGED <<users, study_sessions, study_goals, friendships, next_friendship_id,
                   pomodoro_sessions, next_pomodoro_id, pomodoro_layout, active_timers,
                   db_lock, pomodoro_db_lock>>

InitConcurrentTimers ==
    /\ users = {userRow(i) : i \in RegisteredIds}
    /\ study_sessions = EmptyBag
    /\ study_goals = EmptyBag
    /\ friendships = {}
    /\ next_friendship_id = 1
    /\ pomodoro_sessions \in {{}, storedSessions}
    /\ next_pomodoro_id = 1
    /\ pomodoro_layout = "database"
    /\ active_timers = EmptyBag
    /\ threadsIdle
    /\ result = noResult

NextConcurrentTimers ==
    \E t \in Threads :
        BeginTimerUpdate(t) \/ DeleteStep(t) \/ InsertStep(t) \/ CommitStep(t)

SpecConcurrentTimers == InitConcurrentTimers /\ [][NextConcurrentTimers]_vars

----------------------------------------------------------------------------
(* Properties of the goal reconciler. *)

WeekArgs == {None} \cup {Some(x) : x \in WeekStarts}

\* the week a call of get_weekly_progress / set_weekly_goal is about
weekOfArg(week_arg, today) == IF week_arg = None THEN today - (today % 7) ELSE week_arg[1]

\* the minutes user U logged for subject in the seven days W, W+1, ..., W+6,
\* counted session by session from the table
minutesLogged(U, subject, W) ==
    LET mine == {s \in DOMAIN study_sessions :
                    /\ s.user_id = U
                    /\ s.subject = subject
                    /\ s.session_date \in {W + k : k \in 0..6}}
    IN  SumOver([s \in mine |-> study_sessions[s] * s.duration_minutes])

\* C1: every row (subject, target, actual) of get_weekly_progress(U, W) has
\* actual equal to the sum of the durations of U's sessions of that subject
\* dated in [W, W+6]; other users, other subjects and other dates add nothing.
C1_ActualIsExactSum ==
    \A U \in UserIds, week_arg \in WeekArgs, today \in Todays :
        \A row \in get_weekly_progress(U, week_arg, today) :
            row[3] = minutesLogged(U, row[1], weekOfArg(week_arg, today))

\* C1 witness: sessions of 30 and 45 minutes for Math in the week of day 7 and
\* a Math goal of 120 give the row (Math, 120, 75).
C1_Witness ==
    /\ <<"Math", 120, 75>> \in get_weekly_progress(1, Some(7), 13)
    /\ \E a, b \in DOMAIN study_sessions :
          /\ a.duration_minutes = 30 /\ b.duration_minutes = 45
          /\ a.session_date = 7 /\ b.session_date = 13

\* the goal rows user U declared for week W, as (subject, target) pairs
declaredGoals(U, W) ==
    {<<g.subject, g.weekly_target_minutes>> :
        g \in {x \in DOMAIN study_goals : x.user_id = U /\ x.week_start_date = W}}

\* C2: get_weekly_progress(U, W) has exactly one row per goal U declared for
\* week W and no other row: a goal without a session in the window is there
\* with actual 0, a subject with sessions but no goal for W is not.
C2_OneRowPerGoal ==
    \A U \in UserIds, week_arg \in WeekArgs, today \in Todays :
        LET W == weekOfArg(week_arg, today)
            rows == get_weekly_progress(U, week_arg, today)
        IN  /\ {<<r[1], r[2]>> : r \in rows} = declaredGoals(U, W)
            /\ Cardinality(rows) = Cardinality(declaredGoals(U, W))
            /\ \A r \in rows : minutesLogged(U, r[1], W) = 0 => r[3] = 0

\* C2 witness: user 1 has a Math goal for the week of day 7 and no Math session
\* in it, and a Physics session in that week without a Physics goal.
C2_Witness ==
    /\ get_weekly_progress(1, Some(7), 13) = {<<"Math", 120, 0>>}
    /\ minutesLogged(1, "Physics", 7) > 0

\* the goal rows with the key (user, subject, week), with their multiplicity
goalsAt(goals, u, s, w) == BagFilter(goals, LAMBDA g : goalKey(g) = <<u, s, w>>)

\* the goal rows with any other key
goalsElsewhere(goals, u, s, w) == BagFilter(goals, LAMBDA g : goalKey(g) # <<u, s, w>>)

\* C3: there is at most one goal per (user, subject, week); after a
\* set_weekly_goal call that goal's target is the target of the call, no
\* second row is added, and the goals of other users, subjects and weeks are
\* as they were.
C3_GoalUpsert ==
    /\ [](\A g \in DOMAIN study_goals :
             BagCardinality(goalsAt(study_goals, g.user_id, g.subject,
                                    g.week_start_date)) = 1)
    /\ [][\A u \in RegisteredIds, s \in Subjects, t \in Targets,
             week_arg \in WeekArgs, today \in Todays :
             set_weekly_goal(u, s, t, week_arg, today) =>
                LET w == weekOfArg(week_arg, today)
                IN  /\ goalsAt(study_goals', u, s, w) =
                          SetToBag({[user_id |-> u, subject |-> s,
                                     weekly_target_minutes |-> t,
                                     week_start_date |-> w]})
                    /\ goalsElsewhere(study_goals', u, s, w) =
                          goalsElsewhere(study_goals, u, s, w)]_vars

\* C3 witness: set_weekly_goal has returned success and the goal of user 1
\* for Math in the week of day 7 is a single row, of target 60.
C3_Witness ==
    /\ result.op = "set_weekly_goal" /\ result.ok
    /\ goalsAt(study_goals, 1, "Math", 7) =
          SetToBag({[user_id |-> 1, subject |-> "Math",
                     weekly_target_minutes |-> 60, week_start_date |-> 7]})

----------------------------------------------------------------------------
(* Properties of the friend graph. *)

\* how often user b is listed among the friends of user a
timesListed(a, b) ==
    Cardinality({i \in DOMAIN get_friends_list(a) : get_friends_list(a)[i].user_id = b})

\* how many rows of get_friends_progress(a) are about user b
timesInProgress(a, b, today) ==
    Cardinality({r \in get_friends_progress(a, today) : r.user_id = b})

\* C4: once B has accepted A's request, B is in get_friends_list(A) and A is in
\* get_friends_list(B), and each is exactly once in the other's
\* get_friends_progress, whichever of the two sent the request.
C4_FriendshipSymmetry ==
    \A f \in friendships :
        f.status = "accepted" =>
            /\ timesListed(f.user_id, f.friend_id) = 1
            /\ timesListed(f.friend_id, f.user_id) = 1
            /\ \A today \in Todays :
                  /\ timesInProgress(f.user_id, f.friend_id, today) = 1
                  /\ timesInProgress(f.friend_id, f.user_id, today) = 1

\* C4 witness: user 1 has just accepted the request user 2 sent.
C4_Witness ==
    /\ result.op = "respond_to_request" /\ result.msg = "Friend request accepted"
    /\ \E f \in friendships :
          f.user_id = 2 /\ f.friend_id = 1 /\ f.status = "accepted"

\* some friendship row links a and b, in either direction
rowBetween(a, b) ==
    \E f \in friendships : {f.user_id, f.friend_id} = {a, b}

\* some friendship row that is pending or accepted links a and b
openRowBetween(a, b) ==
    \E f \in friendships :
        {f.user_id, f.friend_id} = {a, b} /\ f.status \in {"pending", "accepted"}

\* C5 as claimed: whenever any friendship row links A and B, a request from A
\* to B (and so one from B to A) fails and leaves the friendship rows as they
\* were.
C5_AnyRowRefuses ==
    [][\A a \in UserIds, b \in UserIds :
          (rowBetween(a, b) /\ send_friend_request(a, usernameOf[b])) =>
              (~result'.ok /\ friendships' = friendships)]_vars

\* C5 amended: whenever a pending or accepted friendship row links A and B, a
\* request from A to B (and so one from B to A) fails and leaves the
\* friendship rows as they were.
C5_OpenRowRefuses ==
    [][\A a \in UserIds, b \in UserIds :
          (openRowBetween(a, b) /\ send_friend_request(a, usernameOf[b])) =>
              (~result'.ok /\ friendships' = friendships)]_vars

\* C5 witness: a request is pending from user 1 to user 2 and a request
\* between the two has just been refused as already pending.
C5_Witness ==
    /\ result.op = "send_friend_request"
    /\ result.msg = "Friend request already pending"
    /\ \E f \in friendships : f.user_id = 1 /\ f.friend_id = 2 /\ f.status = "pending"

\* C6: a friendship row is created pending; its status changes only from
\* pending, to accepted or to rejected; an accepted or rejected row keeps its
\* status under every later operation.
C6_RequestStateMachine ==
    [][/\ \A g \in friendships' :
             (\A f \in friendships : f.friendship_id # g.friendship_id) =>
                 g.status = "pending"
       /\ \A f \in friendships, g \in friendships' :
             (f.friendship_id = g.friendship_id /\ f.status # g.status) =>
                 (f.status = "pending" /\ g.status \in {"accepted", "rejected"})]_vars

\* C6 witness: an accepted row and a rejected row are stored and a later
\* respond_to_request has found no request to answer.
C6_Witness ==
    /\ result.op = "respond_to_request" /\ ~result.ok
    /\ \E f, g \in friendships : f.status = "accepted" /\ g.status = "rejected"

\* some blocked friendship row links a and b, in either direction
blockedBetween(a, b) ==
    \E f \in friendships : {f.user_id, f.friend_id} = {a, b} /\ f.status = "blocked"

\* C7: when a blocked row links A and B, in the reverse or in the same
\* direction, send_friend_request from A to B returns failure, creates no row
\* and leaves the blocked row as it was, whatever other row the pair has.
C7_BlockRefusesRequest ==
    [][\A a \in UserIds, b \in UserIds :
          (blockedBetween(a, b) /\ send_friend_request(a, usernameOf[b])) =>
              (~result'.ok /\ result'.msg # "" /\ friendships' = friendships)]_vars

\* C7 witness: user 2 has blocked user 1 and a request between the two has
\* just been refused because of the block.
C7_Witness ==
    /\ result.op = "send_friend_request"
    /\ result.msg = "Cannot send friend request"
    /\ \E f \in friendships : f.user_id = 2 /\ f.friend_id = 1 /\ f.status = "blocked"

----------------------------------------------------------------------------
(* Properties of the Pomodoro sessions. *)

----------------------------------------------------------------------------
(* Properties of the live timers. *)

\* the rows of user u in a bag of timers
timersOf(timers, u) == BagFilter(timers, LAMBDA t : t.user_id = u)

\* the rows of every other user
timersOfOthers(timers, u) == BagFilter(timers, LAMBDA t : t.user_id # u)

\* C13: each user has at most one active_timers row; after an
\* update_active_timer call with time_remaining > 0 that returned True the
\* user's row is exactly the row of the call's arguments, and the rows of
\* the other users are as they were.
C13_TimerSingleton ==
    /\ [](\A u \in UserIds : BagCardinality(timersOf(active_timers, u)) <= 1)
    /\ [][\A u \in UserIds, sid \in TimerSessionIds, s \in Subjects,
             d \in TimerDurations, tr \in TimeRemainings, b \in BOOLEAN :
             (tr > 0 /\ update_active_timer(u, sid, s, d, tr, b) /\ result'.ok) =>
                /\ timersOf(active_timers', u) =
                      SetToBag({[user_id |-> u, session_id |-> sid, subject |-> s,
                                 duration_minutes |-> d, time_remaining |-> tr,
                                 is_break |-> IF b THEN 1 ELSE 0]})
                /\ timersOfOthers(active_timers', u) =
                      timersOfOthers(active_timers, u)]_vars

\* C13 witness: both users have a timer, user 1's on session 2 with 60
\* seconds left, and the last update_active_timer returned True.
C13_Witness ==
    /\ result.op = "update_active_timer" /\ result.ok
    /\ timersOf(active_timers, 1) =
          SetToBag({[user_id |-> 1, session_id |-> 2, subject |-> "Physics",
                     duration_minutes |-> 25, time_remaining |-> 60, is_break |-> 1]})
    /\ timersOf(active_timers, 2) # EmptyBag

\* C14: every stored active_timers row has time_remaining > 0, and an
\* update_active_timer call with time_remaining <= 0 leaves the user without
\* a row.
C14_NoExpiredTimerStored ==
    /\ [](\A t \in DOMAIN active_timers : t.time_remaining > 0)
    /\ [][\A u \in UserIds, sid \in TimerSessionIds, s \in Subjects,
             d \in TimerDurations, tr \in TimeRemainings, b \in BOOLEAN :
             (tr <= 0 /\ update_active_timer(u, sid, s, d, tr, b)) =>
                timersOf(active_timers', u) = EmptyBag]_vars

\* C14 witness: in a store that holds sessions a timer could refer to, an
\* update_active_timer call has returned True and no timer is stored, which
\* only a call with time_remaining <= 0 brings about.
C14_Witness ==
    /\ result.op = "update_active_timer" /\ result.ok
    /\ pomodoro_sessions # {}
    /\ active_timers = EmptyBag
    /\ threadsIdle

\* the users with whom U has an accepted friendship, whoever requested it
friendsOf(U) ==
    {v \in UserIds \ {U} :
        \E f \in friendships : {f.user_id, f.friend_id} = {U, v} /\ f.status = "accepted"}

\* the stored timers with time left whose owner is a friend of U, as the
\* caller is to see them
liveTimersOfFriends(U) ==
    {[username |-> usernameOf[t.user_id], subject |-> t.subject,
      duration_minutes |-> t.duration_minutes, time_remaining |-> t.time_remaining,
      is_break |-> (t.is_break = 1)] :
        t \in {x \in DOMAIN active_timers :
                  x.time_remaining > 0 /\ x.user_id \in friendsOf(U)}}

\* C15: get_active_friend_timers(U) lists, each once and in the order of the
\* usernames, exactly the stored timers with time_remaining > 0 of the users
\* who have an accepted friendship with U in either direction: never U's own
\* timer nor that of a pending, rejected, blocked, removed or absent friend.
C15_FriendTimersExact ==
    \A U \in UserIds :
        /\ get_active_friend_timers(U) # {}
        /\ \A lst \in get_active_friend_timers(U) :
              /\ {lst[i] : i \in DOMAIN lst} = liveTimersOfFriends(U)
              /\ Len(lst) = Cardinality(liveTimersOfFriends(U))
              /\ \A i \in DOMAIN lst : lst[i].username # usernameOf[U]
              /\ \A i, j \in DOMAIN lst :
                    i < j => usernameRank(lst[i].username) < usernameRank(lst[j].username)

\* C15 witness: all three users have a live timer, user 1 has accepted bob
\* and been accepted by carol, bob and carol hold a pending request between
\* them, and user 1 is shown bob's timer and then carol's.
C15_Witness ==
    /\ \A u \in UserIds : \E t \in DOMAIN active_timers : t.user_id = u
    /\ \E f, g, h \in friendships :
          /\ f.user_id = 1 /\ f.friend_id = 2 /\ f.status = "accepted"
          /\ g.user_id = 3 /\ g.friend_id = 1 /\ g.status = "accepted"
          /\ h.user_id = 2 /\ h.friend_id = 3 /\ h.status = "pending"
    /\ \A lst \in get_active_friend_timers(1) :
          Len(lst) = 2 /\ lst[1].username = "bob" /\ lst[2].username = "carol"
    /\ \A lst \in get_active_friend_timers(2) :
          Len(lst) = 1 /\ lst[1].username = "alice"

----------------------------------------------------------------------------
(* Properties of the progress of friends. *)

\* the trailing week of a day: the day itself and the seven days before it
inWindow(d, today) == today - 7 <= d /\ d <= today

\* the minutes user F studied in the trailing week of today: manual sessions
\* by session_date, completed Pomodoro sessions by the date they started
windowMinutes(F, today) ==
    BagSum(BagFilter(study_sessions,
                     LAMBDA x : x.user_id = F /\ inWindow(x.session_date, today)),
           LAMBDA x : x.duration_minutes)
    + SumOver([p \in {q \in pomodoro_sessions :
                        /\ q.user_id = F /\ q.status = "completed"
                        /\ inWindow(q.started_at, today)} |-> p.duration_minutes])

\* C16: for every accepted friend F of U, get_friends_progress(U) reports as
\* weekly_minutes the manual minutes of F dated in the trailing week plus the
\* minutes of F's completed Pomodoro sessions started in it; sessions dated
\* outside the week and Pomodoro sessions not completed add nothing.
C16_WeeklyMinutesInWindow ==
    \A U \in UserIds, today \in Todays :
        \A row \in get_friends_progress(U, today) :
            row.weekly_minutes = windowMinutes(row.user_id, today)

----------------------------------------------------------------------------
(* Properties of the totals. *)

\* the minutes of the study sessions of user U, row by row
studyMinutes(U) ==
    SumOver([x \in {y \in DOMAIN study_sessions : y.user_id = U} |->
                study_sessions[x] * x.duration_minutes])

\* the minutes of the completed Pomodoro sessions of user U
completedPomodoroMinutes(U) ==
    IF pomodoro_layout = "legacy"
    THEN SumOver([p \in {q \in pomodoro_sessions : q.user_id = U /\ q.completed} |->
                     p.duration])
    ELSE SumOver([p \in {q \in pomodoro_sessions :
                            q.user_id = U /\ q.status = "completed"} |->
                     p.duration_minutes])

\* C17: get_total_study_time_including_pomodoros(U) returns as regular_minutes
\* the sum of U's study-session durations, as pomodoro_minutes the sum of the
\* durations of U's completed Pomodoro sessions, as total_minutes their sum,
\* and total_hours * 60 + remaining_minutes = total_minutes with
\* 0 <= remaining_minutes < 60.
C17_TotalIsSumOfBoth ==
    \A U \in UserIds :
        LET t == get_total_study_time_including_pomodoros(U)
        IN  /\ t.regular_minutes = studyMinutes(U)
            /\ t.pomodoro_minutes = completedPomodoroMinutes(U)
            /\ t.total_minutes = studyMinutes(U) + completedPomodoroMinutes(U)
            /\ t.total_hours * 60 + t.remaining_minutes = t.total_minutes
            /\ 0 <= t.remaining_minutes /\ t.remaining_minutes < 60

----------------------------------------------------------------------------
(* Properties of the request threads. *)

\* thread t is inside the database interaction of its operation
inDatabase(t) == pc[t].at \in {"execute", "close"}

\* C18: one process-wide lock serializes every operation: at no time are two
\* operations inside their database interaction on the shared connection,
\* a Pomodoro operation alongside a session or user operation included.
C18_OneOperationInDatabase ==
    \A t1, t2 \in Threads : (inDatabase(t1) /\ inDatabase(t2)) => t1 = t2

----------------------------------------------------------------------------
(* Properties of the users. *)

\* C20: no two stored users share a username and no two share an email;
\* register_user with a username or an email some stored user holds returns
\* (False, message) and adds no user.
C20_UniqueUsernameAndEmail ==
    /\ [](\A u, v \in users :
             (u.username = v.username \/ u.email = v.email) => u = v)
    /\ [][\A name \in RegisterNames, email \in RegisterEmails :
             ((\E u \in users : u.username = name \/ u.email = email)
              /\ register_user(name, email)) =>
                (~result'.ok /\ users' = users)]_vars

\* C20 witness: two users are stored and register_user has just refused a
\* new username because its email is taken.
C20_Witness ==
    /\ Cardinality(users) = 2
    /\ result = [op |-> "register_user", ok |-> FALSE, msg |-> "Email already exists"]

----------------------------------------------------------------------------
(* Properties of the operations under store failures. *)

\* C19: whatever the point at which the store fails, a write operation
\* returns a result to its caller and raises nothing.
C19_FailuresAreReturned == "raised" \notin DOMAIN result

----------------------------------------------------------------------------
(* Further properties of the friend graph. *)

\* C21: send_friend_request by a user naming their own username returns
\* (False, message) and creates no row; no friendship row has user_id =
\* friend_id and no user is in their own get_friends_list.
C21_NoSelfFriendship ==
    /\ [](/\ \A f \in friendships : f.user_id # f.friend_id
          /\ \A u \in UserIds : timesListed(u, u) = 0)
    /\ [][\A u \in UserIds :
             send_friend_request(u, usernameOf[u]) =>
                (~result'.ok /\ friendships' = friendships)]_vars

\* C21 witness: with friendship rows stored, a user has just named
\* themselves and been refused.
C21_Witness ==
    /\ result = [op |-> "send_friend_request", ok |-> FALSE,
                 msg |-> "Cannot add yourself as a friend"]
    /\ \E f \in friendships : f.status = "accepted"

----------------------------------------------------------------------------
(* Further properties of goals and sessions. *)

\* C22: every stored goal row has a Monday as its week_start_date, whether
\* set_weekly_goal computed the date or the caller supplied it.
C22_GoalsStartOnMonday ==
    \A g \in DOMAIN study_goals : weekday(g.week_start_date) = 0

\* C23: every stored study session has a positive duration: log_study_session
\* never persists a session of zero or negative duration_minutes.
C23_DurationsArePositive ==
    \A x \in DOMAIN study_sessions : x.duration_minutes > 0

----------------------------------------------------------------------------
(* Further properties of the live timers. *)

\* some stored timer refers to session sid
timerOfSession(timers, sid) == \E t \in DOMAIN timers : t.session_id = sid

refersTo(uid) ==
    [sessions  |-> BagFilter(study_sessions, LAMBDA r : r.user_id = uid),
     goals     |-> BagFilter(study_goals, LAMBDA r : r.user_id = uid),
     pomodoros |-> {p \in pomodoro_sessions : p.user_id = uid},
     timers    |-> BagFilter(active_timers, LAMBDA t : t.user_id = uid),
     friends   |-> {f \in friendships : f.user_id = uid \/ f.friend_id = uid}]

refersToNext(uid) ==
    [sessions  |-> BagFilter(study_sessions', LAMBDA r : r.user_id = uid),
     goals     |-> BagFilter(study_goals', LAMBDA r : r.user_id = uid),
     pomodoros |-> {p \in pomodoro_sessions' : p.user_id = uid},
     timers    |-> BagFilter(active_timers', LAMBDA t : t.user_id = uid),
     friends   |-> {f \in friendships' : f.user_id = uid \/ f.friend_id = uid}]

noRows ==
    [sessions |-> EmptyBag, goals |-> EmptyBag, pomodoros |-> {}, timers |-> EmptyBag,
     friends |-> {}]

\* the rows of a user that involve no other user than the ones of `others`
rowsAmong(uid, others) ==
    [sessions  |-> BagFilter(study_sessions, LAMBDA r : r.user_id = uid),
     goals     |-> BagFilter(study_goals, LAMBDA r : r.user_id = uid),
     pomodoros |-> {p \in pomodoro_sessions : p.user_id = uid},
     timers    |-> BagFilter(active_timers, LAMBDA t : t.user_id = uid),
     friends   |-> {f \in friendships : /\ f.user_id = uid \/ f.friend_id = uid
                                        /\ f.user_id \in others /\ f.friend_id \in others}]

pendingFor(friendship_id, user_id) ==
    {f \in friendships : f.friendship_id = friendship_id /\ f.friend_id = user_id
                            /\ f.status = "pending"}

C26_OnlyRecipientResponds ==
    [][\A fid \in 1..MaxFriendshipId, u \in UserIds, accept \in BOOLEAN :
          respond_to_request(fid, u, accept) =>
              /\ \A f \in friendships, g \in friendships' :
                    (f.friendship_id = g.friendship_id /\ f.status # g.status) =>
                        f \in pendingFor(fid, u)
              /\ pendingFor(fid, u) = {} =>
                    /\ result' = [op |-> "respond_to_request", ok |-> FALSE,
                                  msg |-> "Friend request not found"]
                    /\ friendships' = friendships
              /\ pendingFor(fid, u) # {} =>
                    /\ result'.ok
                    /\ \E g \in friendships' :
                          /\ g.friendship_id = fid
                          /\ g.status = IF accept THEN "accepted" ELSE "rejected"]_vars

\* C26 witness: every id that can be named is the id of a pending row, and a
\* respond_to_request has found no request: its caller was not the recipient.
C26_Witness ==
    /\ result.op = "respond_to_request" /\ ~result.ok
    /\ \A fid \in 1..MaxFriendshipId :
          \E f \in friendships : f.friendship_id = fid /\ f.status = "pending"

(* C27: after any sequence of send_friend_request, respond_to_request and  *)
(* remove_friend calls, at most one friendship row between two users is    *)
(* pending or accepted, a second row for the pair exists only alongside a  *)
(* rejected one, and at most one row exists per ordered pair.              *)

samePair(f, g) == {f.user_id, f.friend_id} = {g.user_id, g.friend_id}

C27_OneLiveRowPerPair ==
    \A f \in friendships, g \in friendships :
        /\ (f.user_id = g.user_id /\ f.friend_id = g.friend_id) => f = g
        /\ (samePair(f, g) /\ f # g) => (f.status = "rejected" \/ g.status = "rejected")
        /\ (samePair(f, g) /\ f.status \in {"pending", "accepted"}
                           /\ g.status \in {"pending", "accepted"}) => f = g

\* C27 witness: a pair has a rejected row one way and an accepted row the
\* other way, and a further request between the two has been refused.
C27_Witness ==
    /\ result.op = "send_friend_request" /\ ~result.ok
    /\ \E f \in friendships, g \in friendships :
          /\ f.user_id = g.friend_id /\ f.friend_id = g.user_id
          /\ f.status = "rejected" /\ g.status = "accepted"

(* C28: when update_active_timer has deleted the user's old row and its    *)
(* insert then fails with a store error, it returns False and the timer    *)
(* row the user had before is still stored with unchanged fields.          *)

C28_FailedUpdateKeepsTimer ==
    [][\A u \in UserIds, sid \in TimerSessionIds, s \in Subjects, d \in TimerDurations,
          tr \in TimeRemainings, b \in BOOLEAN :
          (/\ timersOf(active_timers, u) # EmptyBag
           /\ update_active_timer(u, sid, s, d, tr, b)
           /\ ~result'.ok) =>
              timersOf(active_timers', u) = timersOf(active_timers, u)]_vars

(* C29: cancel_pomodoro_session called on a completed session leaves that  *)
(* session's row and the totals derived from it unchanged, and called on   *)
(* any session it never alters or removes a different session.             *)

\* the Pomodoro minutes that the totals of user u count, over a table
pomodoroMinutesIn(sessions, u) ==
    SumOver([p \in {q \in sessions : q.user_id = u /\ q.completed = TRUE
                                      /\ q.session_type = "focus"} |-> p.duration])

C29_CancelTouchesOnlyOpenSession ==
    [][\A sid \in SessionIds :
          cancel_pomodoro_session(sid) =>
              /\ \A p \in pomodoro_sessions :
                    (p.completed \/ p.id # sid) => p \in pomodoro_sessions'
              /\ pomodoro_sessions' \subseteq pomodoro_sessions
              /\ (\E p \in pomodoro_sessions : p.id = sid /\ p.completed) =>
                    /\ study_sessions' = study_sessions
                    /\ \A u \in UserIds :
                          pomodoroMinutesIn(pomodoro_sessions', u) =
                              pomodoroMinutesIn(pomodoro_sessions, u)]_vars

\* C29 witness: every session id is the id of a stored completed session, so
\* the cancel_pomodoro_session that has just returned was called on one.
C29_Witness ==
    /\ result.op = "cancel_pomodoro_session"
    /\ \A sid \in SessionIds :
          \E p \in pomodoro_sessions : p.id = sid /\ p.completed
    /\ \E u \in UserIds : get_total_study_time_including_pomodoros(u).pomodoro_minutes > 0

(* C30: when update_active_timer calls for the same user run concurrently  *)
(* on the shared connection, their delete and insert steps interleaved in  *)
(* any order, the user has at most one active_timers row once the calls    *)
(* have ended.                                                             *)

C30_TimerSingletonUnderConcurrency ==
    (\A t \in Threads : pc[t].at = "idle") =>
        \A u \in UserIds : BagCardinality(timersOf(active_timers, u)) <= 1

====
